---- MODULE Spec2Model ----
(***************************************************************************)
(* Batch orchestration of township classification (processCoordinates)    *)
(* and its Classification Client (identifyTownshipsBatch).                 *)
(*                                                                         *)
(* src/unnamed/part_001 holds five versions of the service module.  The   *)
(* model carries the version as the state variable `variant` (1..5, in    *)
(* file order) and every operator that differs between the versions takes *)
(* the version as its first argument.                                      *)
(*                                                                         *)
(* `pc` is the position of the async function: the loop test, the try     *)
(* block, the two awaits, the catch block and the end of the loop body.   *)
(*                                                                         *)
(* Four specifications: Spec is one pass of processCoordinates over the   *)
(* records handleParse made of a text; FairSpec is Spec under the         *)
(* scheduling the pass relies on; SpecParse is handleParse (App.tsx) with *)
(* parseCoordinates (src/unnamed/part_000) on the texts of a user;        *)
(* SpecApp is the App component under its events (text edits, file loads, *)
(* clicks on the start button) interleaved with the passes they start,    *)
(* each pass cut at its awaits.                                            *)
(***************************************************************************)
EXTENDS Integers, Sequences, FiniteSets, TLC

(* ---------------------------- bounds ---------------------------------- *)

\* largest number of records of a run
MaxRecords == 6

\* largest number of entries in an array answered by the model service
MaxRespLen == 2

(* ------------------------- values and types --------------------------- *)

Variants == 1..5

\* township: string | null  -- the null of a record that was never classified
NULL == "null"

\* a falsy township of a response entry (missing, empty string, null)
FALSY == ""

\* the valid vocabulary (../constants, not part of the sources at hand)
CHANGHUA_TOWNSHIPS == {"Changhua", "Tianwei"}

\* a township string outside the vocabulary
BOGUS == "Atlantis"

\* the literal written by the third version for an unmatched record
FAILURE_SENTINEL == "RecognitionFailed"

\* an array element that is null: reading its .id raises a TypeError
NullEntry == [isNull |-> TRUE, id |-> 0, township |-> FALSY]

Entry(k, t) == [isNull |-> FALSE, id |-> k, township |-> t]

(* --------------------- numbers of the input text ---------------------- *)

\* Numbers are integers (metres); two values stand for the non-numbers a
\* JavaScript number can be.
NaN == -1
Infinity == 2147483647

isNaN(v) == v = NaN

isFinite(v) == v # NaN /\ v # Infinity

\* The text is a sequence of symbols: the delimiter characters and words
\* (maximal runs of other characters), which the inputs keep apart by at
\* least one delimiter.
Whitespace == {" ", "\t", "\r", "\n"}

\* the character class [,\t\s]
Delimiters == {","} \cup Whitespace

\* "PointName" stands for the header word of the name column
HeaderWords == {"PointName", "X", "Y"}

\* parseFloat of a word
parseFloatWord(w) ==
    CASE w = "50" -> 50
      [] w = "201234" -> 201234
      [] w = "201235" -> 201235
      [] w = "2655678" -> 2655678
      [] w = "2655679" -> 2655679
      [] w = "Infinity" -> Infinity
      [] OTHER -> NaN

\* word.includes('X')
WordHasX(w) == w \in {"X", "PX1"}

\* word.includes of the header word of the name column
WordHasPointName(w) == w = "PointName"

(* --------------------------- String methods --------------------------- *)

RECURSIVE trimStart(_)
trimStart(s) ==
    IF s # <<>> /\ Head(s) \in Whitespace THEN trimStart(Tail(s)) ELSE s

RECURSIVE trimEnd(_)
trimEnd(s) ==
    IF s # <<>> /\ s[Len(s)] \in Whitespace
    THEN trimEnd(SubSeq(s, 1, Len(s) - 1))
    ELSE s

\* String.prototype.trim
trim(s) == trimEnd(trimStart(s))

\* s.split('\n'): the pieces between the line feeds, empty pieces included
RECURSIVE splitLines(_, _)
splitLines(s, piece) ==
    IF s = <<>> THEN <<piece>>
    ELSE IF Head(s) = "\n" THEN <<piece>> \o splitLines(Tail(s), <<>>)
    ELSE splitLines(Tail(s), Append(piece, Head(s)))

\* s.split(/[,\t\s]+/): the pieces between the runs of delimiters; a run
\* at the start or at the end of s leaves an empty piece there
RECURSIVE splitDelims(_, _, _)
splitDelims(s, piece, inRun) ==
    IF s = <<>> THEN <<piece>>
    ELSE IF Head(s) \in Delimiters
         THEN IF inRun THEN splitDelims(Tail(s), piece, TRUE)
              ELSE <<piece>> \o splitDelims(Tail(s), <<>>, TRUE)
    ELSE splitDelims(Tail(s), Append(piece, Head(s)), FALSE)

\* parseFloat of a piece of a line; of undefined (no such piece) it is NaN
parseFloat(parts, k) ==
    IF k < 1 \/ k > Len(parts) THEN NaN
    ELSE IF parts[k] = <<>> THEN NaN
    ELSE parseFloatWord(parts[k][1])

(* -------------------------- parseCoordinates -------------------------- *)

\* the filter of the header lines
KeepsLine(line) ==
    /\ ~\E k \in 1..Len(line) : WordHasPointName(line[k])
    /\ ~\E k \in 1..Len(line) : WordHasX(line[k])

RECURSIVE filterLines(_)
filterLines(lines) ==
    IF lines = <<>> THEN <<>>
    ELSE IF KeepsLine(Head(lines))
         THEN <<Head(lines)>> \o filterLines(Tail(lines))
    ELSE filterLines(Tail(lines))

\* the test of a pair read from a line
AcceptsPair(x, y) ==
    ~isNaN(x) /\ ~isNaN(y) /\ x > 100000 /\ y > 1000000

\* body of the loop over the lines: the pairs the line adds (one or none)
parseLine(line) ==
    LET split == splitDelims(line, <<>>, FALSE)
        parts == [k \in 1..Len(split) |-> trim(split[k])]
        y == parseFloat(parts, Len(parts))
        x == parseFloat(parts, Len(parts) - 1)
    IN  IF AcceptsPair(x, y) THEN <<[x |-> x, y |-> y]>> ELSE <<>>

\* the loop with coordinates.unshift in place of coordinates.push
RECURSIVE parseLinesReversed(_, _)
parseLinesReversed(lines, coordinates) ==
    IF lines = <<>> THEN coordinates
    ELSE parseLinesReversed(Tail(lines), parseLine(Head(lines)) \o coordinates)

\* for (const line of lines) { ... coordinates.push({ x, y }) }
RECURSIVE parseLines(_, _)
parseLines(lines, coordinates) ==
    IF lines = <<>> THEN coordinates
    ELSE parseLines(Tail(lines), coordinates \o parseLine(Head(lines)))

parseCoordinates(text) ==
    parseLines(filterLines(splitLines(trim(text), <<>>)), <<>>)

(* ---------------------------- twd97ToWgs84 ---------------------------- *)

\* The projection in thousandths of a degree, by its first-order terms
\* around the central meridian (121 E at x = 250000 m) at the latitude of
\* the county: a thousandth of a degree is about 111 m of northing and
\* 102 m of easting.  A non-finite input gives NaN.
twd97ToWgs84(x, y) ==
    IF isFinite(x) /\ isFinite(y)
    THEN [lat |-> y \div 111, lng |-> 121000 + ((x - 250000) \div 102)]
    ELSE [lat |-> NaN, lng |-> NaN]

(* ----------------------------- handleParse ---------------------------- *)

\* the record with id: index taken as the id
CoordinateDataZeroBased(p, index) ==
    [id |-> index,
     originalX |-> p.x,
     originalY |-> p.y,
     lat |-> twd97ToWgs84(p.x, p.y).lat,
     lng |-> twd97ToWgs84(p.x, p.y).lng,
     township |-> NULL,
     status |-> "pending"]

\* the CoordinateData that parsed.map makes of pair p at index (0-based)
CoordinateData(p, index) ==
    [id |-> index + 1,
     originalX |-> p.x,
     originalY |-> p.y,
     lat |-> twd97ToWgs84(p.x, p.y).lat,
     lng |-> twd97ToWgs84(p.x, p.y).lng,
     township |-> NULL,
     status |-> "pending"]

\* mappedData of handleParse for the parsed pairs
handleParse(parsed) ==
    [k \in 1..Len(parsed) |-> CoordinateData(parsed[k], k - 1)]

(* --------------------- the five service versions ---------------------- *)

BATCH_SIZE(v) == IF v = 3 THEN 3 ELSE 5

\* `if (i > 0) await delay(..)` is present in versions 1, 2 and 4
HasDelay(v) == v \in {1, 2, 4}

\* the catch block of processCoordinates marks the batch error (not in 5)
CatchMarksError(v) == v # 5

\* the test that decides between completed and error for a found township
TownshipAccepted(v, t) ==
    IF v = 1 THEN t # FALSY /\ t \in CHANGHUA_TOWNSHIPS
    ELSE t # FALSY

\* what the else branch stores in township
RejectedTownship(v, old) ==
    CASE v \in {1, 2} -> old
      [] v = 3        -> FAILURE_SENTINEL
      [] OTHER        -> NULL

(* ---------------- outcomes of the generative model call --------------- *)

\* the township strings an answer carries for a record of the batch: one of
\* the vocabulary, one outside it and a falsy one
EntryTownships == {"Changhua", BOGUS, FALSY}

\* entries for the first two records of the batch starting at `start`
OwnEntries(n, start) ==
    {Entry(k, t) : k \in {start + 1, start + 2} \cap (1..n),
                   t \in EntryTownships}

\* entries that name no record of the batch, with a township that would be
\* accepted: the id of a record of another chunk (when there is one) and
\* an id no record has
ForeignEntries(v, n, start) ==
    {Entry(k, "Changhua") :
        k \in ({IF start > 0 THEN 1 ELSE BATCH_SIZE(v) + 1} \cap (1..n))
                \cup {n + 1}}

Entries(v, n, start) ==
    OwnEntries(n, start) \cup ForeignEntries(v, n, start) \cup {NullEntry}

Arrays(v, n, start) ==
    UNION {[1..m -> Entries(v, n, start)] : m \in 0..MaxRespLen}

\* "fail": generateContent rejects or the text is not JSON
\* "nonarray": the text has no [...] part and parses to a non-array value
\* "array": the text parses to an array
RawFail == [kind |-> "fail", arr |-> <<>>]
RawNonArray == [kind |-> "nonarray", arr |-> <<>>]
RawArray(a) == [kind |-> "array", arr |-> a]

RawOutcomes(v, n, start) ==
    {RawFail, RawNonArray} \cup {RawArray(a) : a \in Arrays(v, n, start)}

NoRaw == [kind |-> "none", arr |-> <<>>]

\* result of the promise returned by identifyTownshipsBatch
Rejected == [threw |-> TRUE, isArray |-> FALSE, arr |-> <<>>]
Resolved(a) == [threw |-> FALSE, isArray |-> TRUE, arr |-> a]
ResolvedNonArray == [threw |-> FALSE, isArray |-> FALSE, arr |-> <<>>]

identifyTownshipsBatch(v, raw) ==
    CASE raw.kind = "fail" ->
            IF v = 3 THEN Rejected ELSE Resolved(<<>>)
      [] raw.kind = "nonarray" ->
            IF v \in {3, 5} THEN Resolved(<<>>) ELSE ResolvedNonArray
      [] OTHER -> Resolved(raw.arr)

(* ------------------------- Array.prototype.find ----------------------- *)

\* first index whose element is null, 0 when there is none
FirstNull(arr) ==
    IF \E p \in 1..Len(arr) : arr[p].isNull
    THEN CHOOSE p \in 1..Len(arr) :
            arr[p].isNull /\ \A q \in 1..(p - 1) : ~arr[q].isNull
    ELSE 0

\* first index of an element with ident.id === id, 0 when there is none
FirstMatch(arr, id) ==
    IF \E p \in 1..Len(arr) : ~arr[p].isNull /\ arr[p].id = id
    THEN CHOOSE p \in 1..Len(arr) :
            /\ ~arr[p].isNull /\ arr[p].id = id
            /\ \A q \in 1..(p - 1) : arr[q].isNull \/ arr[q].id # id
    ELSE 0

\* identifications.find(ident => ident.id === id) raises a TypeError
FindThrows(ident, id) ==
    \/ ~ident.isArray
    \/ /\ FirstNull(ident.arr) # 0
       /\ \/ FirstMatch(ident.arr, id) = 0
          \/ FirstNull(ident.arr) < FirstMatch(ident.arr, id)

\* match?.township of the entry found, FALSY when none is found
MatchTownship(ident, id) ==
    IF FirstMatch(ident.arr, id) = 0 THEN FALSY
    ELSE ident.arr[FirstMatch(ident.arr, id)].township

(* ------------------------------ state --------------------------------- *)

VARIABLES
    variant,          \* which version of the service module runs
    records,          \* the CoordinateData objects shared by allData/resultData
    pc,               \* position of processCoordinates
    i,                \* loop variable
    processedCount,
    raw,              \* outcome of the model call of the current chunk
    outstanding,      \* number of client calls in flight
    calls,            \* number of client calls issued so far
    delayed,          \* the delay timer was awaited in this iteration
    progressLog,      \* history: one entry per onProgress call
    callLog,          \* history: one entry per client call
    expected,         \* history: result each record should end with
    failedChunks,     \* history: start indices of the chunks that failed
    townshipWrites,   \* history: assignments to each record's township
    text,             \* the text handed to handleParse
    parsed,           \* the pairs parseCoordinates returned to handleParse
    resultData,       \* the array of the pass: references to record objects
    appState,         \* the AppState of App
    runs,             \* the calls of startProcessing made so far
    lists,            \* lists[g]: the record objects of the g-th handleParse
    shown             \* which of the lists the coordinates of App refer to

\* what processCoordinates never touches
appVars == <<appState, runs, lists, shown>>

inputVars == <<variant, text, parsed, resultData, appVars>>

vars == <<variant, records, pc, i, processedCount, raw, outstanding, calls,
          delayed, progressLog, callLog, expected, failedChunks,
          townshipWrites, text, parsed, resultData, appState, runs, lists,
          shown>>

N == Len(records)

Min(a, b) == IF a < b THEN a ELSE b

\* a slice that runs one record into the next batch
BatchOfOverlapping(v, n, start) ==
    (start + 1)..Min(start + BATCH_SIZE(v) + 1, n)

\* positions (1-based) of resultData.slice(i, i + BATCH_SIZE)
BatchOf(v, n, start) == (start + 1)..Min(start + BATCH_SIZE(v), n)

Batch == BatchOf(variant, N, i)

\* line k of a text of plain lines, with and without a name column
PlainLine(k) ==
    IF k % 2 = 1 THEN <<"201234", ",", "2655678">>
    ELSE <<"A", ",", "201235", ",", "2655679">>

\* a text of n plain lines
RECURSIVE PlainText(_)
PlainText(n) ==
    IF n = 0 THEN <<>>
    ELSE IF n = 1 THEN PlainLine(1)
    ELSE PlainText(n - 1) \o <<"\n">> \o PlainLine(n)

\* The record objects are known by reference: reference k is the k-th
\* object handleParse made, and records[p] is the object that position p of
\* resultData refers to.  allData, the array of the caller, refers to the
\* objects in the order they were made.
allData(n) == [k \in 1..n |-> k]

\* arr.map(r => ({ ...r })): a new array of new objects
SpreadOfCopies(arr) == [k \in 1..Len(arr) |-> Len(arr) + arr[k]]

\* [...arr]: a new array with the elements of arr, which are references to
\* the same objects
Spread(arr) == [k \in 1..Len(arr) |-> arr[k]]

\* processCoordinates is entered with the records handleParse made of a text
Init ==
    /\ variant \in Variants
    /\ \E n \in 0..MaxRecords : text = PlainText(n)
    /\ parsed = parseCoordinates(text)
    /\ records = handleParse(parsed)
    /\ resultData = Spread(allData(Len(records)))
    /\ appState = "PROCESSING"
    /\ runs = <<>>
    /\ lists = <<>>
    /\ shown = 0
    /\ pc = "loop"
    /\ i = 0
    /\ processedCount = 0
    /\ raw = NoRaw
    /\ outstanding = 0
    /\ calls = 0
    /\ delayed = FALSE
    /\ progressLog = <<>>
    /\ callLog = <<>>
    /\ expected = [k \in 1..Len(records) |->
                     [status |-> records[k].status,
                      township |-> records[k].township]]
    /\ failedChunks = {}
    /\ townshipWrites = [k \in 1..Len(records) |-> 0]

(* --------------------------- array helpers ---------------------------- *)

\* resultData.findIndex(r => r.id === id); 0 stands for -1
findIndex(recs, id) ==
    IF \E p \in 1..Len(recs) : recs[p].id = id
    THEN CHOOSE p \in 1..Len(recs) :
            recs[p].id = id /\ \A q \in 1..(p - 1) : recs[q].id # id
    ELSE 0

\* the positions of resultData a forEach over the batch writes to
Targets(recs, batch) == {findIndex(recs, recs[p].id) : p \in batch} \ {0}

SetStatus(recs, T, s) ==
    [k \in 1..Len(recs) |-> IF k \in T THEN [recs[k] EXCEPT !.status = s]
                            ELSE recs[k]]

\* batch.forEach(item => ... .status = 'processing')
MarkProcessing(v, recs, batch) ==
    IF v \in {3, 5} THEN SetStatus(recs, batch, "processing")
    ELSE SetStatus(recs, Targets(recs, batch), "processing")

\* the result forEach with the position inside the batch used as the index
\* into resultData
WriteResultByBatchIndex(v, recs, ident, p) ==
    LET item == recs[p]
        index == ((p - 1) % BATCH_SIZE(v)) + 1
        t == MatchTownship(ident, item.id)
    IN  IF TownshipAccepted(v, t)
        THEN [recs EXCEPT ![index].township = t,
                          ![index].status = "completed"]
        ELSE [recs EXCEPT
                ![index].township = RejectedTownship(v, recs[index].township),
                ![index].status = "error"]

\* a result forEach that puts a record without a position in place of the
\* record it writes to
WriteResultClearsPosition(v, recs, ident, p) ==
    LET item == recs[p]
        index == findIndex(recs, item.id)
        t == MatchTownship(ident, item.id)
    IN  IF index = 0 THEN recs
        ELSE [recs EXCEPT ![index].township = t,
                          ![index].status = "completed",
                          ![index].lat = NaN,
                          ![index].lng = NaN]

\* body of the result forEach for one item whose find did not throw
WriteResult(v, recs, ident, p) ==
    LET item == recs[p]
        index == findIndex(recs, item.id)
        t == MatchTownship(ident, item.id)
    IN  IF index = 0 THEN recs
        ELSE IF TownshipAccepted(v, t)
             THEN [recs EXCEPT ![index].township = t,
                               ![index].status = "completed"]
             ELSE [recs EXCEPT
                     ![index].township =
                         RejectedTownship(v, recs[index].township),
                     ![index].status = "error"]

\* the else branch of the result forEach assigns township as well
ElseWritesTownship(v) == v \in {3, 4, 5}

\* the position whose township the body of the result forEach assigns for
\* the item at p, 0 when it assigns none
TownshipWrite(v, recs, ident, p) ==
    LET index == findIndex(recs, recs[p].id)
        t == MatchTownship(ident, recs[p].id)
    IN  IF index # 0 /\ (TownshipAccepted(v, t) \/ ElseWritesTownship(v))
        THEN index
        ELSE 0

\* the tally of township assignments with those to the positions T added
Tally(writes, T) ==
    [k \in DOMAIN writes |-> IF k \in T THEN writes[k] + 1 ELSE writes[k]]

\* the tally with one assignment to position index added (none when 0)
TallyOne(writes, index) ==
    IF index = 0 THEN writes ELSE [writes EXCEPT ![index] = @ + 1]

\* batch.forEach(item => { find; findIndex; write }) over the positions
\* p..last of resultData: the records it leaves, whether it raised, and
\* the tally of its township assignments
RECURSIVE forEachResult(_, _, _, _, _, _)
forEachResult(v, recs, ident, p, last, writes) ==
    IF p > last THEN [recs |-> recs, threw |-> FALSE, writes |-> writes]
    ELSE IF FindThrows(ident, recs[p].id)
         THEN [recs |-> recs, threw |-> TRUE, writes |-> writes]
    ELSE forEachResult(v, WriteResult(v, recs, ident, p), ident, p + 1, last,
                       TallyOne(writes, TownshipWrite(v, recs, ident, p)))

\* a catch block that resets the township of the batch as well
CatchTownshipWritesBatch(v, recs, batch) == Targets(recs, batch)

\* the positions whose township the catch block assigns: it assigns status
\* alone
CatchTownshipWrites(v, recs, batch) == {}

\* a try block with no catch: what it raises rejects the promise
OnThrowEscapes == "rejected"

\* where control goes when the try block raises: try { ... } catch (e) {
OnThrow == "catch"

\* a catch block that marks the whole of resultData instead of the batch
CatchBatchAll(v, recs, batch) ==
    IF CatchMarksError(v) THEN SetStatus(recs, 1..Len(recs), "error")
    ELSE recs

\* the catch block of processCoordinates
CatchBatch(v, recs, batch) ==
    IF CatchMarksError(v) THEN SetStatus(recs, Targets(recs, batch), "error")
    ELSE recs

\* processedCount += batch.length, charging a whole BATCH_SIZE per chunk
AdvanceByBatchSize(v, count, batch) == count + BATCH_SIZE(v)

\* processedCount += batch.length
Advance(v, count, batch) == count + Cardinality(batch)

\* onProgress(processedCount, [...resultData]) as seen by the caller
onProgress(log, count, ncalls, start) ==
    Append(log, [count |-> count, calls |-> ncalls, start |-> start,
                 snapshot |-> Spread(resultData)])

(* ------------- the result a chunk should end with (history) ----------- *)

\* first batch position whose find raises, 0 when none does
Thrower(res, batch) ==
    IF \E p \in batch : FindThrows(res, p)
    THEN CHOOSE p \in batch :
            FindThrows(res, p) /\ \A q \in batch : q < p => ~FindThrows(res, q)
    ELSE 0

\* record k made of the pairs once its chunk is marked processing
Marked(pairs, k) ==
    [CoordinateData(pairs[k], k - 1) EXCEPT !.status = "processing"]

ExpectedOf(v, res, prior, p, batch) ==
    LET t == MatchTownship(res, prior.id)
        normal == IF TownshipAccepted(v, t)
                  THEN [status |-> "completed", township |-> t]
                  ELSE [status |-> "error",
                        township |-> RejectedTownship(v, prior.township)]
        caught == IF CatchMarksError(v) THEN "error" ELSE prior.status
        th == Thrower(res, batch)
    IN  IF res.threw
        THEN [status |-> caught, township |-> prior.township]
        ELSE IF th = 0 THEN normal
        ELSE IF p < th
             THEN [status |-> IF CatchMarksError(v) THEN "error"
                              ELSE normal.status,
                   township |-> normal.township]
        ELSE [status |-> caught, township |-> prior.township]

(* ------------------------------ actions ------------------------------- *)

\* a loop that goes on while i <= resultData.length
LoopContinuesInclusive(index, n) == index <= n

\* the loop condition i < resultData.length
LoopContinues(index, n) == index < n

\* for (...; i < resultData.length; ...) { slice; mark processing; onProgress
BeginChunk ==
    /\ pc = "loop"
    /\ LoopContinues(i, N)
    /\ records' = MarkProcessing(variant, records, Batch)
    /\ progressLog' = onProgress(progressLog, processedCount, calls, i)
    /\ delayed' = FALSE
    /\ pc' = "try"
    /\ UNCHANGED <<inputVars, i, processedCount, raw, outstanding, calls,
                   callLog, expected, failedChunks, townshipWrites>>

\* the loop condition is false: the async function returns
Finish ==
    /\ pc = "loop"
    /\ ~LoopContinues(i, N)
    /\ pc' = "done"
    /\ UNCHANGED <<inputVars, records, i, processedCount, raw, outstanding,
                   calls, delayed, progressLog, callLog, expected,
                   failedChunks, townshipWrites>>

\* if (i > 0) await delay(ms)
StartDelay ==
    /\ pc = "try"
    /\ HasDelay(variant) /\ i > 0
    /\ pc' = "delay"
    /\ UNCHANGED <<inputVars, records, i, processedCount, raw, outstanding,
                   calls, delayed, progressLog, callLog, expected,
                   failedChunks, townshipWrites>>

\* the timer fires and the function resumes
DelayFires ==
    /\ pc = "delay"
    /\ delayed' = TRUE
    /\ pc' = "call"
    /\ UNCHANGED <<inputVars, records, i, processedCount, raw, outstanding,
                   calls, progressLog, callLog, expected, failedChunks,
                   townshipWrites>>

\* identifyTownshipsBatch(batch) without the await: the call is issued and
\* the loop body goes on at once
CallClientNoAwait ==
    /\ \/ pc = "call"
       \/ pc = "try" /\ ~(HasDelay(variant) /\ i > 0)
    /\ outstanding' = outstanding + 1
    /\ calls' = calls + 1
    /\ callLog' = Append(callLog, [start |-> i, size |-> Cardinality(Batch),
                                   ids |-> [q \in 1..Cardinality(Batch) |->
                                              records[i + q].id],
                                   delayed |-> delayed,
                                   progress |-> Len(progressLog),
                                   seen |-> [k \in 1..Min(i, N) |->
                                               records[k].status]])
    /\ pc' = "after"
    /\ UNCHANGED <<inputVars, records, i, processedCount, raw, delayed,
                   progressLog, expected, failedChunks, townshipWrites>>

\* await identifyTownshipsBatch(batch): the call is issued
CallClient ==
    /\ \/ pc = "call"
       \/ pc = "try" /\ ~(HasDelay(variant) /\ i > 0)
    /\ outstanding' = outstanding + 1
    /\ calls' = calls + 1
    /\ callLog' = Append(callLog, [start |-> i, size |-> Cardinality(Batch),
                                   ids |-> [q \in 1..Cardinality(Batch) |->
                                              records[i + q].id],
                                   delayed |-> delayed,
                                   progress |-> Len(progressLog),
                                   seen |-> [k \in 1..Min(i, N) |->
                                               records[k].status]])
    /\ pc' = "await"
    /\ UNCHANGED <<inputVars, records, i, processedCount, raw, delayed,
                   progressLog, expected, failedChunks, townshipWrites>>

\* the promise of identifyTownshipsBatch settles and the function resumes:
\* a rejection enters the catch block, a value is handed to the result
\* forEach, which runs until it ends or raises
ClientSettles ==
    /\ pc = "await"
    /\ \E r \in RawOutcomes(variant, N, i) :
         LET res == identifyTownshipsBatch(variant, r)
             run == IF res.threw
                    THEN [recs |-> records, threw |-> TRUE,
                          writes |-> townshipWrites]
                    ELSE forEachResult(variant, records, res, i + 1,
                                       Min(i + BATCH_SIZE(variant), N),
                                       townshipWrites)
         IN  /\ raw' = r
             /\ records' = run.recs
             /\ townshipWrites' = run.writes
             /\ pc' = IF run.threw THEN OnThrow ELSE "after"
             /\ expected' = [k \in 1..N |->
                   IF k \in Batch
                   THEN ExpectedOf(variant, res, Marked(parsed, k), k, Batch)
                   ELSE expected[k]]
             /\ failedChunks' = IF r.kind = "array" THEN failedChunks
                                ELSE failedChunks \cup {i}
    /\ outstanding' = outstanding - 1
    /\ UNCHANGED <<inputVars, i, processedCount, calls, delayed,
                   progressLog, callLog>>

\* a catch block that leaves the iteration (continue) after marking
CatchBlockSkipsProgress ==
    /\ pc = "catch"
    /\ records' = CatchBatch(variant, records, Batch)
    /\ processedCount' = Advance(variant, processedCount, Batch)
    /\ i' = i + BATCH_SIZE(variant)
    /\ raw' = NoRaw
    /\ pc' = "loop"
    /\ townshipWrites' =
          Tally(townshipWrites, CatchTownshipWrites(variant, records, Batch))
    /\ UNCHANGED <<inputVars, outstanding, calls, delayed, progressLog,
                   callLog, expected, failedChunks>>

\* catch (e) { ... }
CatchBlock ==
    /\ pc = "catch"
    /\ records' = CatchBatch(variant, records, Batch)
    /\ pc' = "after"
    /\ townshipWrites' =
          Tally(townshipWrites, CatchTownshipWrites(variant, records, Batch))
    /\ UNCHANGED <<inputVars, i, processedCount, raw, outstanding, calls,
                   delayed, progressLog, callLog, expected, failedChunks>>

\* processedCount += batch.length; onProgress(...); i += BATCH_SIZE
AfterChunk ==
    /\ pc = "after"
    /\ processedCount' = Advance(variant, processedCount, Batch)
    /\ progressLog' = onProgress(progressLog, processedCount', calls, i)
    /\ i' = i + BATCH_SIZE(variant)
    /\ raw' = NoRaw
    /\ pc' = "loop"
    /\ UNCHANGED <<inputVars, records, outstanding, calls, delayed, callLog,
                   expected, failedChunks, townshipWrites>>

Next ==
    \/ BeginChunk
    \/ Finish
    \/ StartDelay
    \/ DelayFires
    \/ CallClient
    \/ ClientSettles
    \/ CatchBlock
    \/ AfterChunk

Spec == Init /\ [][Next]_vars

\* a step of ClientSettles by what it does to the position of
\* processCoordinates: the await of the client call ends
AwaitEnds == pc = "await" /\ pc' \in {OnThrow, "after"}

\* The pass under the scheduling it relies on: a timer that was set fires,
\* a call that was issued settles, and the event loop runs a continuation
\* that is ready.
FairSpec ==
    /\ Spec
    /\ WF_vars(DelayFires)
    /\ WF_pc(AwaitEnds)
    /\ WF_vars(BeginChunk \/ Finish \/ StartDelay \/ CallClient
                  \/ CatchBlock \/ AfterChunk)

(* ------------------- handleParse on the texts of a user --------------- *)

\* largest number of lines of a text
MaxLines == 2

\* leading columns of a line: none, a point name, a point name with an X in
\* it, two columns
Leads == {<<>>, <<"A", ",">>, <<"PX1", ",">>, <<"A", " ", "B", "\t">>}

\* the last two words of a line: two points of the county, numbers out of
\* range, non-finite numbers, no numbers
LastWords == {<<"201234", "2655678">>, <<"201235", "2655679">>,
              <<"50", "50">>, <<"Infinity", "Infinity">>, <<"not", "pair">>}

\* what follows the last word of a line
Trailers == {<<" ">>, <<"\t">>, <<",">>, <<"\r">>}

HeaderLine == <<"PointName", ",", "X", ",", "Y">>

Lines ==
    {l \o <<w[1], ",", w[2]>> : l \in Leads, w \in LastWords}
    \cup {<<"201234", ",", " ", "2655678">> \o t : t \in Trailers}
    \cup {HeaderLine, <<>>, <<"201234">>}

\* the lines joined by line feeds
RECURSIVE JoinLines(_)
JoinLines(ls) ==
    IF ls = <<>> THEN <<>>
    ELSE IF Len(ls) = 1 THEN ls[1]
    ELSE ls[1] \o <<"\n">> \o JoinLines(Tail(ls))

Texts ==
    {JoinLines(ls) : ls \in UNION {[1..n -> Lines] : n \in 0..MaxLines}}

\* the App before handleParse is given the text of a file or of the box
InitParse ==
    /\ text \in Texts
    /\ parsed = <<>>
    /\ records = <<>>
    /\ resultData = <<>>
    /\ appState = "IDLE"
    /\ runs = <<>>
    /\ lists = <<>>
    /\ shown = 0
    /\ pc = "input"
    /\ variant = 1
    /\ i = 0
    /\ processedCount = 0
    /\ raw = NoRaw
    /\ outstanding = 0
    /\ calls = 0
    /\ delayed = FALSE
    /\ progressLog = <<>>
    /\ callLog = <<>>
    /\ expected = <<>>
    /\ failedChunks = {}
    /\ townshipWrites = <<>>

\* what processCoordinates keeps for itself, which App never touches
passVars == <<i, raw, outstanding, calls, delayed, progressLog, callLog,
              expected, failedChunks, townshipWrites, resultData>>

\* body of handleParse(t): setAppState(PARSING), parse, map to records,
\* setCoordinates, setAppState(IDLE), setProcessedCount(0); the records are
\* new objects
ParseInto(t) ==
    /\ parsed' = parseCoordinates(t)
    /\ records' = handleParse(parsed')
    /\ lists' = Append(lists, records')
    /\ shown' = Len(lists')
    /\ appState' = "IDLE"
    /\ processedCount' = 0

\* handleParse(text)
HandleParse ==
    /\ pc = "input"
    /\ ParseInto(text)
    /\ pc' = "parsed"
    /\ UNCHANGED <<variant, text, runs, passVars>>

NextParse == HandleParse

SpecParse == InitParse /\ [][NextParse]_vars

(* ------------------------ App: events and passes ---------------------- *)

\* largest number of handleParse calls that make new records
MaxParses == 2

\* largest number of startProcessing calls
MaxRuns == 2

\* the texts a user types or loads: empty, blank, one line, and as many
\* lines as make a second chunk
AppTexts == {<<>>, <<" ">>, PlainText(1), PlainText(MaxRecords)}

\* what the client does with the batch at start of a list of n records:
\* it fails, or it answers every record of the batch with a township
AppOutcomes(v, n, start) ==
    {RawFail,
     RawArray([q \in 1..Cardinality(BatchOf(v, n, start)) |->
                 Entry(start + q, "Changhua")])}

\* App as it is mounted: useState('') , useState([]), AppState.IDLE, 0
InitApp ==
    /\ variant \in Variants
    /\ text = <<>>
    /\ parsed = <<>>
    /\ records = <<>>
    /\ appState = "IDLE"
    /\ processedCount = 0
    /\ runs = <<>>
    /\ lists = <<>>
    /\ shown = 0
    /\ pc = "app"
    /\ resultData = <<>>
    /\ i = 0
    /\ raw = NoRaw
    /\ outstanding = 0
    /\ calls = 0
    /\ delayed = FALSE
    /\ progressLog = <<>>
    /\ callLog = <<>>
    /\ expected = <<>>
    /\ failedChunks = {}
    /\ townshipWrites = <<>>

\* onChange of the textarea: setInputText, and handleParse unless the text
\* is blank
TextareaChange ==
    /\ pc = "app"
    /\ \E t \in AppTexts :
          /\ text' = t
          /\ IF trim(t) # <<>>
             THEN Len(lists) < MaxParses /\ ParseInto(t)
             ELSE UNCHANGED <<parsed, records, lists, shown, appState,
                              processedCount>>
    /\ UNCHANGED <<variant, pc, runs, passVars>>

\* reader.onload of handleFileUpload: setInputText(text); handleParse(text)
FileLoaded ==
    /\ pc = "app"
    /\ Len(lists) < MaxParses
    /\ \E t \in AppTexts : text' = t /\ ParseInto(t)
    /\ UNCHANGED <<variant, pc, runs, passVars>>

\* the start button is enabled, and coordinates.length is not 0
StartEnabled == Len(records) # 0 /\ appState # "PROCESSING"

\* a click on the start button: startProcessing runs up to the await, and
\* processCoordinates in it up to the await of its first client call (it
\* marks the first batch and calls onProgress, which sets the processed
\* count and the coordinates of App)
ClickStart ==
    /\ pc = "app"
    /\ StartEnabled
    /\ Len(runs) < MaxRuns
    /\ LET marked == MarkProcessing(variant, lists[shown],
                                    BatchOf(variant, Len(lists[shown]), 0))
       IN  /\ lists' = [lists EXCEPT ![shown] = marked]
           /\ records' = marked
           /\ processedCount' = Min(0, Len(marked))
    /\ runs' = Append(runs, [list |-> shown, i |-> 0, count |-> 0,
                             pc |-> "await"])
    /\ appState' = "PROCESSING"
    /\ UNCHANGED <<variant, text, parsed, shown, pc, passVars>>

\* the client call of pass r settles and the pass runs on to its next
\* await or to its end: result forEach or catch block, onProgress, and
\* either the next batch marked, onProgress and the delay or the next
\* client call, or the return, after which startProcessing sets COMPLETED
PassResumes(r) ==
    /\ pc = "app"
    /\ runs[r].pc = "await"
    /\ \E answer \in AppOutcomes(variant, Len(lists[runs[r].list]),
                                  runs[r].i) :
         LET g == runs[r].list
             n == Len(lists[g])
             batch == BatchOf(variant, n, runs[r].i)
             res == identifyTownshipsBatch(variant, answer)
             out == IF res.threw THEN [recs |-> lists[g], threw |-> TRUE]
                    ELSE forEachResult(variant, lists[g], res,
                                       runs[r].i + 1,
                                       Min(runs[r].i + BATCH_SIZE(variant),
                                           n),
                                       [k \in 1..n |-> 0])
             written == IF out.threw
                        THEN CatchBatch(variant, out.recs, batch)
                        ELSE out.recs
             count == Advance(variant, runs[r].count, batch)
             next == runs[r].i + BATCH_SIZE(variant)
             more == LoopContinues(next, n)
             snapshot == IF more
                         THEN MarkProcessing(variant, written,
                                             BatchOf(variant, n, next))
                         ELSE written
         IN  /\ lists' = [lists EXCEPT ![g] = snapshot]
             /\ records' = snapshot
             /\ shown' = g
             /\ processedCount' = Min(count, n)
             /\ runs' = [runs EXCEPT ![r] =
                           [list |-> g, i |-> next, count |-> count,
                            pc |-> IF ~more THEN "done"
                                   ELSE IF HasDelay(variant) THEN "delay"
                                   ELSE "await"]]
             /\ appState' = IF more THEN appState ELSE "COMPLETED"
    /\ UNCHANGED <<variant, text, parsed, pc, passVars>>

\* the delay timer of pass r fires and the pass issues its client call
PassDelayFires(r) ==
    /\ pc = "app"
    /\ runs[r].pc = "delay"
    /\ runs' = [runs EXCEPT ![r].pc = "await"]
    /\ UNCHANGED <<variant, text, parsed, records, processedCount, appState,
                   lists, shown, pc, passVars>>

NextApp ==
    \/ TextareaChange
    \/ FileLoaded
    \/ ClickStart
    \/ \E r \in 1..Len(runs) : PassResumes(r)
    \/ \E r \in 1..Len(runs) : PassDelayFires(r)

SpecApp == InitApp /\ [][NextApp]_vars

TypeOK ==
    /\ variant \in Variants
    /\ pc \in {"loop", "try", "delay", "call", "await", "catch",
               "after", "done", "rejected", "input", "parsed", "app"}
    /\ appState \in {"IDLE", "PARSING", "PROCESSING", "COMPLETED"}
    /\ \A k \in 1..N : records[k].status \in
                          {"pending", "processing", "completed", "error"}

(* ------------------------------ claims -------------------------------- *)

\* number of chunks of a run over n records
Chunks(v, n) == (n + BATCH_SIZE(v) - 1) \div BATCH_SIZE(v)

\* start index of the chunk that holds position k
ChunkStart(v, k) == ((k - 1) \div BATCH_SIZE(v)) * BATCH_SIZE(v)

Settled == {"completed", "error"}

\* C1: when the Classification Client call of a chunk fails, every record of
\* that chunk ends error, every chunk is still called once and in order, and
\* every record of another chunk ends with the status and township that the
\* answer to its own chunk alone determines.
C1_FailureStaysInChunk ==
    pc = "done" =>
      /\ Len(callLog) = Chunks(variant, N)
      /\ \A c \in 1..Len(callLog) :
            callLog[c].start = (c - 1) * BATCH_SIZE(variant)
      /\ \A k \in 1..N :
            IF ChunkStart(variant, k) \in failedChunks
            THEN records[k].status = "error"
            ELSE /\ records[k].status = expected[k].status
                 /\ records[k].township = expected[k].township

\* a finished run in which a chunk failed and a record of a later chunk was
\* completed
C1_Witness ==
    /\ pc = "done"
    /\ \E k \in 1..N :
         /\ records[k].status = "completed"
         /\ \E f \in failedChunks : f < ChunkStart(variant, k)

\* C2: when processCoordinates returns, every record is completed or error.
C2_AllSettledAtReturn ==
    pc = "done" => \A k \in 1..N : records[k].status \in Settled

Rank(s) ==
    CASE s = "pending" -> 0
      [] s = "processing" -> 1
      [] OTHER -> 2

\* C3: a record's status only moves pending -> processing -> completed or
\* error, and a completed or error status does not change again.
C3_StatusMonotone ==
    [][\A k \in 1..N :
          /\ Rank(records'[k].status) >= Rank(records[k].status)
          /\ records[k].status \in Settled
                => records'[k].status = records[k].status]_vars

\* C4: the township of a record is null, the failure sentinel or a member of
\* the valid list, and a record is completed only with a township of the list
\* (a township outside the list is never stored and never completes a
\* record).
C4_TownshipFromList ==
    \A k \in 1..N :
        /\ records[k].township \in
              CHANGHUA_TOWNSHIPS \cup {NULL, FAILURE_SENTINEL}
        /\ records[k].status = "completed"
              => records[k].township \in CHANGHUA_TOWNSHIPS

\* the answer to the current chunk holds an entry with this id and township
Answered(k, t) ==
    \E p \in 1..Len(raw.arr) :
        /\ ~raw.arr[p].isNull
        /\ raw.arr[p].id = k
        /\ raw.arr[p].township = t

\* the answer is a list of objects with pairwise distinct ids (any order, any
\* subset of ids, any township)
OneEntryPerId(arr) ==
    /\ \A p \in 1..Len(arr) : ~arr[p].isNull
    /\ \A p, q \in 1..Len(arr) : arr[p].id = arr[q].id => p = q

\* C5: once a chunk is handled with an answer that names each id at most
\* once, a record of it is completed with township t exactly when the answer
\* holds an entry with its id and the valid township t, and a record whose id
\* is missing from the answer is error.
C5_MatchedById ==
    (pc = "after" /\ raw.kind = "array" /\ OneEntryPerId(raw.arr)) =>
      \A k \in Batch :
        /\ \A t \in EntryTownships \cup {NULL, FAILURE_SENTINEL} :
              (records[k].status = "completed" /\ records[k].township = t)
                <=> (t \in CHANGHUA_TOWNSHIPS /\ Answered(records[k].id, t))
        /\ (\A t \in EntryTownships : ~Answered(records[k].id, t))
              => records[k].status = "error"

\* C6: every step of the handling of a chunk leaves the records outside the
\* chunk unchanged, whatever ids the answer carries.
C6_WritesOnlyOwnChunk ==
    [][\A k \in 1..N : k \notin Batch => records'[k] = records[k]]_vars

\* a later chunk was handled with an answer that names record 1 with a valid
\* township, and record 1 still is as its own chunk left it
C6_Witness ==
    /\ pc = "after"
    /\ i > 0
    /\ records[1].status = "error"
    /\ \E t \in CHANGHUA_TOWNSHIPS : Answered(1, t)

\* C7: the counts passed to onProgress never decrease, never exceed the
\* number of records, and the last one of a run is the number of records.
C7_ProgressMonotone ==
    /\ \A m \in 1..Len(progressLog) :
          /\ progressLog[m].count <= N
          /\ m > 1 => progressLog[m - 1].count <= progressLog[m].count
    /\ (pc = "done" /\ Len(progressLog) > 0)
          => progressLog[Len(progressLog)].count = N

\* a finished run over two chunks whose last chunk is short
C7_Witness ==
    /\ pc = "done"
    /\ Len(progressLog) >= 4
    /\ N % BATCH_SIZE(variant) # 0

\* C8: onProgress is called twice per chunk, before and after the client
\* call: call 2c-1 reports the records of chunks 1..c-1 and no call for chunk
\* c yet, call 2c reports those plus the size of chunk c; a run makes
\* 2 * ceil(n / BATCH_SIZE) calls.
C8_TwoCallsPerChunk ==
    /\ \A m \in 1..Len(progressLog) :
          LET c == (m + 1) \div 2
              entry == progressLog[m]
          IN  /\ entry.start = (c - 1) * BATCH_SIZE(variant)
              /\ IF m % 2 = 1
                 THEN /\ entry.count = (c - 1) * BATCH_SIZE(variant)
                      /\ entry.calls = c - 1
                 ELSE /\ entry.count = Min(c * BATCH_SIZE(variant), N)
                      /\ entry.calls = c
    /\ pc = "done" => Len(progressLog) = 2 * Chunks(variant, N)

\* a finished run of at least two chunks in which the client call of a
\* chunk failed
C8_Witness ==
    /\ pc = "done"
    /\ Len(progressLog) >= 4
    /\ failedChunks # {}

\* C9: at most one client call is in flight; calls are issued in record
\* order; when the call of a chunk is issued, the second onProgress of the
\* chunk before it has been made and the statuses of all earlier records
\* are the ones they keep.
C9_ChunksSerialized ==
    /\ outstanding <= 1
    /\ (outstanding = 1) <=> (pc = "await")
    /\ \A c \in 1..Len(callLog) :
          /\ callLog[c].start = (c - 1) * BATCH_SIZE(variant)
          /\ callLog[c].progress = 2 * c - 1
          /\ \A k \in 1..callLog[c].start :
                callLog[c].seen[k] = records[k].status

\* the call of a second chunk is in flight
C9_Witness ==
    /\ pc = "await"
    /\ Len(callLog) >= 2
    /\ \E k \in 1..i : records[k].status = "completed"

\* C10: the call of every chunk after the first is issued after the delay
\* was awaited in that iteration, the call of the first chunk without one.
C10_DelayBeforeLaterCalls ==
    \A c \in 1..Len(callLog) :
        callLog[c].delayed <=> (callLog[c].start > 0)

\* the ids of the records handed over by the client calls so far, in call
\* order
RECURSIVE Submitted(_)
Submitted(log) ==
    IF log = <<>> THEN <<>>
    ELSE Submitted(SubSeq(log, 1, Len(log) - 1)) \o log[Len(log)].ids

\* C11: the batches handed to the Classification Client split the input:
\* put end to end in call order they are the input sequence, every batch
\* holds BATCH_SIZE records except possibly the last, which holds between 1
\* and BATCH_SIZE, and a finished pass has made ceil(n / BATCH_SIZE) calls
\* with every record in exactly one of them.
C11_BatchesPartitionInput ==
    LET sub == Submitted(callLog)
    IN  /\ Len(sub) <= N
        /\ \A q \in 1..Len(sub) :
              sub[q] = CoordinateData(parsed[q], q - 1).id
        /\ \A c \in 1..Len(callLog) :
              /\ Len(callLog[c].ids) \in 1..BATCH_SIZE(variant)
              /\ Len(callLog[c].ids) < BATCH_SIZE(variant) =>
                    c = Chunks(variant, N)
        /\ pc = "done" =>
              /\ Len(callLog) = Chunks(variant, N)
              /\ Len(sub) = N
              /\ \A k \in 1..N :
                    Cardinality({q \in 1..Len(sub) :
                                   sub[q] = records[k].id}) = 1

\* a finished pass over an input that does not divide into whole batches
C11_Witness ==
    /\ pc = "done"
    /\ Len(callLog) >= 2
    /\ Len(callLog[Len(callLog)].ids) < BATCH_SIZE(variant)

\* C12: whatever the Classification Client does (resolve with any value or
\* reject), the promise of processCoordinates is never rejected: nothing
\* raised inside the loop escapes it.
C12_NeverRejects == pc # "rejected"

\* a pass of the version whose identifyTownshipsBatch rethrows that
\* finished although a call was rejected and, in another chunk, the result
\* forEach raised after it had completed a record
C12_Witness ==
    /\ pc = "done"
    /\ variant = 3
    /\ failedChunks # {}
    /\ \E k \in 1..N : /\ ChunkStart(variant, k) \notin failedChunks
                       /\ records[k].township \in CHANGHUA_TOWNSHIPS
                       /\ records[k].status = "error"

\* C13: processCoordinates never changes id, originalX, originalY, lat or
\* lng of a record; they stay as handleParse set them.
C13_IngestionFieldsKept ==
    pc \notin {"input", "parsed"} =>
      /\ N = Len(parsed)
      /\ \A k \in 1..N :
            [records[k] EXCEPT !.status = "pending", !.township = NULL]
              = CoordinateData(parsed[k], k - 1)

\* a finished pass that wrote status and township of records
C13_Witness ==
    /\ pc = "done"
    /\ \E k \in 1..N : records[k].status = "completed"
    /\ \E k \in 1..N : records[k].status = "error"
    /\ \E k \in 1..N : records[k].township # NULL

\* C14: in one pass, the township of a record is assigned at most once,
\* whatever the answers are.
C14_TownshipWrittenOnce == \A k \in 1..N : townshipWrites[k] <= 1

\* a finished pass in which a township was assigned before the result
\* forEach of the same chunk raised and the catch block ran
C14_Witness ==
    /\ pc = "done"
    /\ \E k \in 1..N : /\ townshipWrites[k] = 1
                       /\ records[k].township \in CHANGHUA_TOWNSHIPS
                       /\ records[k].status = "error"
    /\ \E k \in 1..N : townshipWrites[k] = 0

\* C15: handleParse makes one record per parsed pair, in parse order; the
\* id of a record is its 1-based position, so the ids are exactly 1..n;
\* every record starts pending with no township.
C15_OneRecordPerPair ==
    pc = "parsed" =>
      /\ Len(records) = Len(parsed)
      /\ {records[k].id : k \in 1..Len(records)} = 1..Len(parsed)
      /\ \A k \in 1..Len(records) :
            /\ records[k].id = k
            /\ records[k].originalX = parsed[k].x
            /\ records[k].originalY = parsed[k].y
            /\ records[k].status = "pending"
            /\ records[k].township = NULL

\* a text of two lines with different points was parsed
C15_Witness ==
    /\ pc = "parsed"
    /\ Len(records) = 2
    /\ records[1].originalX # records[2].originalX

\* the lines of the text handed to handleParse
TextLines == splitLines(trim(text), <<>>)

\* the words of a line, its delimiters left out
Words(line) == SelectSeq(line, LAMBDA w : w \notin Delimiters)

\* a line that names a column
IsHeaderLine(line) == \E k \in 1..Len(line) : line[k] \in HeaderWords

\* x and y are both numbers within the plausible range of the county
Plausible(x, y) ==
    isFinite(x) /\ isFinite(y) /\ x > 100000 /\ y > 1000000

\* C16: parseCoordinates accepts a pair only if both values parse as finite
\* numbers with easting > 100000 and northing > 1000000: every pair it
\* returns is finite and within these bounds.
C16_PairsFiniteAndInRange ==
    pc = "parsed" =>
      \A a \in 1..Len(parsed) :
        /\ isFinite(parsed[a].x) /\ isFinite(parsed[a].y)
        /\ parsed[a].x > 100000
        /\ parsed[a].y > 1000000

\* C17: every line that is no header and whose last two tokens are
\* plausible numbers yields that pair, whatever its leading columns hold.
C17_LastTwoTokensDecide ==
    pc = "parsed" =>
      \A l \in 1..Len(TextLines) :
        LET parts == splitDelims(TextLines[l], <<>>, FALSE)
            x == parseFloat(parts, Len(parts) - 1)
            y == parseFloat(parts, Len(parts))
        IN  (~IsHeaderLine(TextLines[l]) /\ Plausible(x, y)) =>
               \E a \in 1..Len(parsed) : parsed[a] = [x |-> x, y |-> y]

\* the pair of numbers that the last two words of a line spell
PairOfWords(line) ==
    [x |-> parseFloatWord(Words(line)[Len(Words(line)) - 1]),
     y |-> parseFloatWord(Words(line)[Len(Words(line))])]

\* a line without two numbers at its end
IsMalformedLine(line) ==
    \/ Len(Words(line)) < 2
    \/ PairOfWords(line).x = NaN
    \/ PairOfWords(line).y = NaN

\* C18: parseCoordinates returns (it never raises) at most one pair per
\* line, in the order of the lines the pairs come from; a text that is
\* empty or holds only header or malformed lines yields no pair.
C18_OrderKeptOnePairPerLine ==
    pc = "parsed" =>
      /\ Len(parsed) <= Len(TextLines)
      /\ \E f \in [1..Len(parsed) -> 1..Len(TextLines)] :
            /\ \A a, b \in 1..Len(parsed) : a < b => f[a] < f[b]
            /\ \A a \in 1..Len(parsed) :
                  /\ Len(Words(TextLines[f[a]])) >= 2
                  /\ parsed[a] = PairOfWords(TextLines[f[a]])
      /\ (\A l \in 1..Len(TextLines) :
             IsHeaderLine(TextLines[l]) \/ IsMalformedLine(TextLines[l]))
         => parsed = <<>>

\* a text of two lines with different points gave two pairs
C18_Witness ==
    /\ pc = "parsed"
    /\ Len(TextLines) = 2
    /\ Len(parsed) = 2
    /\ parsed[1] # parsed[2]

\* C20: when every client call settles and every delay timer fires, a pass
\* completes, after exactly ceil(n / BATCH_SIZE) iterations of the loop and
\* as many client calls; over an empty list it completes without a client
\* call and without an onProgress call.
C20_PassCompletes ==
    /\ <>(/\ pc = "done"
          /\ calls = Chunks(variant, N)
          /\ Len(progressLog) = 2 * Chunks(variant, N))
    /\ [](N = 0 => calls = 0 /\ progressLog = <<>>)

\* a pass of several iterations with a delay completed although a call
\* failed
C20_Witness ==
    /\ pc = "done"
    /\ HasDelay(variant)
    /\ calls >= 2
    /\ failedChunks # {}

\* what a snapshot handed to onProgress for the chunk at start must show:
\* earlier chunks settled, later chunks pending, the chunk itself all
\* processing at its first call and not processing at its second
SnapshotInOrder(recs, start, first) ==
    \A k \in 1..Len(recs) :
       /\ k <= start => recs[k].status \in Settled
       /\ k > start + BATCH_SIZE(variant) => recs[k].status = "pending"
       /\ (k > start /\ k <= start + BATCH_SIZE(variant)) =>
             IF first THEN recs[k].status = "processing"
             ELSE recs[k].status # "processing"

\* C21: at every onProgress call of a pass that started with all records
\* pending, every record of a finished chunk is completed or error, every
\* record of a chunk not yet started is pending, and the records of the
\* current chunk are all processing at its first call and none of them at
\* its second.
C21_SnapshotsInOrder ==
    [][Len(progressLog') > Len(progressLog) =>
         SnapshotInOrder(records',
                         progressLog'[Len(progressLog')].start,
                         Len(progressLog') % 2 = 1)]_vars

\* the record object that reference ref (of a caller's object) refers to: an
\* object that no position of resultData refers to is as handleParse made it
ObjectAt(ref) ==
    IF \E p \in 1..Len(resultData) : resultData[p] = ref
    THEN records[CHOOSE p \in 1..Len(resultData) : resultData[p] = ref]
    ELSE CoordinateData(parsed[ref], ref - 1)

InFlight == {r \in 1..Len(runs) : runs[r].pc # "done"}

\* C23: In App, at most one processCoordinates pass is in flight at any
\* time, for every interleaving of text edits, file loads and clicks on the
\* start button.
C23_OnePassInFlight == Cardinality(InFlight) <= 1

\* C24: The records App displays are always those of the most recently
\* parsed input: once handleParse has replaced the records and reset the
\* processed count, no progress callback of a pass started on an earlier
\* list overwrites the displayed records or the processed count.
C24_ShownIsLatestParse ==
    /\ shown = Len(lists)
    /\ shown > 0 => records = lists[shown]
    /\ processedCount > 0 => \E r \in 1..Len(runs) : runs[r].list = Len(lists)

\* a line without the delimiters that follow its last word
RECURSIVE WithoutTrailers(_)
WithoutTrailers(line) ==
    IF line # <<>> /\ line[Len(line)] \in Delimiters
    THEN WithoutTrailers(SubSeq(line, 1, Len(line) - 1))
    ELSE line

\* the text with every line cut back to its last word
TextWithoutTrailers ==
    JoinLines([l \in 1..Len(TextLines) |-> WithoutTrailers(TextLines[l])])

\* C25: parseCoordinates is insensitive to trailing delimiters: a line
\* followed by spaces, tabs, a comma or a carriage return yields the same
\* pair as the line without them, so a text with CRLF line ends yields one
\* pair per valid line.
C25_TrailingDelimitersIgnored ==
    pc = "parsed" => parsed = parseCoordinates(TextWithoutTrailers)

====
